---- MODULE Spec2Model ----
(***************************************************************************)
(* Command dispatch of the hg extension (src/src/commands.ts): the wrapper *)
(* built by CommandCenter.createCommand (guard, telemetry, handler call,   *)
(* error classification), the handlers it wraps (open, stage / unstage /   *)
(* clean, smart commit, undo, update, branch, clone, pull / push), and     *)
(* getLeftResource / getRightResource / getTitle / getSCMResource.         *)
(*                                                                         *)
(* One invocation is followed at a time, from the host's call of the       *)
(* wrapper until the promise it returned and every engine operation it     *)
(* started have settled; then the next invocation is followed.  Under      *)
(* SpecInterleaved another command may complete while the one followed     *)
(* waits for a commit message.                                             *)
(***************************************************************************)
EXTENDS Naturals, Sequences, FiniteSets

(***************************************************************************)
(* Bounds of the model.                                                    *)
(***************************************************************************)
\* longest diagnostic text (stderr / message), in tokens
MaxLen == 3

(***************************************************************************)
(* Diagnostic text.  A text is a sequence of tokens; "error: " and         *)
(* "> husky" stand for those literal character runs, "x" for any other     *)
(* printable character, " " for a blank and "\n" for a line break.         *)
(***************************************************************************)
Tokens == {"error: ", "> husky", "x", " ", "\n"}

\* JavaScript's undefined, where a text is expected
Undefined == <<"undefined">>

RECURSIVE TextsOfLen(_)
TextsOfLen(n) ==
    IF n = 0 THEN {<<>>}
    ELSE {Append(t, c) : t \in TextsOfLen(n - 1), c \in Tokens}

Texts == UNION {TextsOfLen(n) : n \in 0..MaxLen}

\* texts of at most one token
ShortTexts == UNION {TextsOfLen(n) : n \in 0..1}

\* truthiness of a string-or-undefined value
Truthy(t) == t # Undefined /\ t # <<>>

\* ^ under the m flag: the start of the text or just after a line break
AtLineStart(t, i) == i = 1 \/ t[i - 1] = "\n"

\* the positions where /^error: /mi matches
ErrorPrefixAt(t) == {i \in 1..Len(t) : t[i] = "error: " /\ AtLineStart(t, i)}

\* the positions where /^> husky.*$/mi starts to match
HuskyAt(t) == {i \in 1..Len(t) : t[i] = "> husky" /\ AtLineStart(t, i)}

Min(S) == CHOOSE i \in S : \A j \in S : i <= j

\* the end of the line that position i is on: the last position before the
\* next line break
LineEnd(t, i) ==
    LET breaks == {j \in i..Len(t) : t[j] = "\n"}
    IN  IF breaks = {} THEN Len(t) ELSE Min(breaks) - 1

\* t without the positions from..to
Cut(t, from, to) == SubSeq(t, 1, from - 1) \o SubSeq(t, to + 1, Len(t))

(***************************************************************************)
(* The catch handler's classification of a failure (lines 549-569).        *)
(***************************************************************************)
\* .replace(/^error: /mi, ''): no g flag, so the first match only
StripErrorPrefix(t) ==
    IF ErrorPrefixAt(t) = {} THEN t
    ELSE LET i == Min(ErrorPrefixAt(t)) IN Cut(t, i, i)

\* .replace(/^> husky.*$/mi, ''): the first matching line only, to its end
StripHusky(t) ==
    IF HuskyAt(t) = {} THEN t
    ELSE LET i == Min(HuskyAt(t)) IN Cut(t, i, LineEnd(t, i))

\* .split(/[\r\n]/)
RECURSIVE SplitLines(_)
SplitLines(t) ==
    LET breaks == {j \in 1..Len(t) : t[j] = "\n"}
    IN  IF breaks = {} THEN <<t>>
        ELSE LET j == Min(breaks)
             IN  <<SubSeq(t, 1, j - 1)>> \o SplitLines(SubSeq(t, j + 1, Len(t)))

\* .filter(line => !!line)
FilterNonEmpty(lines) == SelectSeq(lines, LAMBDA l : l # <<>>)

\* [0] of an array: undefined when the array is empty
First(lines) == IF lines = <<>> THEN Undefined ELSE lines[1]

\* the values a handler can fail with: null / undefined, or a value with
\* optional hgErrorCode, stderr and message
ErrorCodes == {"", "DirtyWorkTree"}

NoErr == [kind |-> "none", hgErrorCode |-> "", stderr |-> Undefined, message |-> Undefined]

NullErr == [kind |-> "null", hgErrorCode |-> "", stderr |-> Undefined, message |-> Undefined]

OptTexts == Texts \cup {Undefined}

OptShortTexts == ShortTexts \cup {Undefined}

\* a long text in one of stderr and message; the other is absent, empty or
\* one token long
Errs ==
    {NullErr} \cup
    {[kind |-> "object", hgErrorCode |-> c, stderr |-> s, message |-> Undefined] :
        c \in ErrorCodes, s \in OptTexts} \cup
    {[kind |-> "object", hgErrorCode |-> c, stderr |-> s, message |-> m] :
        c \in ErrorCodes, s \in {Undefined, <<>>}, m \in OptTexts} \cup
    {[kind |-> "object", hgErrorCode |-> c, stderr |-> s, message |-> m] :
        c \in ErrorCodes, s \in OptShortTexts, m \in OptShortTexts}

\* String(err) of a value whose stderr and message are both falsy
ToString(err) == <<"Error">>

\* err.stderr || err.message || String(err)
Diagnostic(err) ==
    IF Truthy(err.stderr) THEN err.stderr
    ELSE IF Truthy(err.message) THEN err.message
    ELSE ToString(err)

\* the hint of lines 557-562
Hint(err) == First(FilterNonEmpty(SplitLines(StripHusky(StripErrorPrefix(Diagnostic(err))))))

\* the message of lines 552-569; err is not null / undefined
Classify(err) ==
    IF err.hgErrorCode = "DirtyWorkTree" THEN <<"clean repo">>
    ELSE IF Truthy(Hint(err)) THEN <<"Hg: ">> \o Hint(err)
    ELSE <<"Hg error">>

\* no message
NoMessage == <<>>

(***************************************************************************)
(* Resources and their references.  A Uri is its scheme, its path (the     *)
(* segments of fsPath) and its query.                                      *)
(***************************************************************************)
Paths == {<<"a.txt">>, <<"dir", "b.txt">>}

FileUri(p) == [scheme |-> "file", path |-> p, query |-> ""]

\* undefined, where a Uri is expected
NoUri == [scheme |-> "", path |-> <<>>, query |-> ""]

\* the Status enumeration: the statuses the resolvers name, CLEAN, and one
\* status ("MISSING") that no switch names
Statuses == {"ADDED", "DELETED", "MODIFIED", "UNTRACKED", "IGNORED", "CLEAN", "MISSING"}

Resources ==
    [status : Statuses,
     original : {FileUri(p) : p \in Paths},
     resourceUri : {FileUri(p) : p \in Paths}]

\* undefined, where a Resource is expected
NoResource == [status |-> "", original |-> NoUri, resourceUri |-> NoUri]

\* uri.with({ scheme: 'hg', query: '.' })
WithHg(uri) == [uri EXCEPT !.scheme = "hg", !.query = "."]

\* path.basename(uri.fsPath)
Basename(uri) == IF uri.path = <<>> THEN "" ELSE uri.path[Len(uri.path)]

\* getLeftResource with the IGNORED case left out of the switch
getLeftResource_noIgnored(resource) ==
    IF resource.status \in {"ADDED", "UNTRACKED"} THEN NoUri
    ELSE WithHg(resource.original)

getLeftResource(resource) ==
    IF resource.status \in {"ADDED", "UNTRACKED", "IGNORED"} THEN NoUri
    ELSE WithHg(resource.original)

\* getRightResource with the ADDED case left out of the switch
getRightResource_noAdded(resource) ==
    IF resource.status = "DELETED" THEN WithHg(resource.resourceUri)
    ELSE IF resource.status \in {"MODIFIED", "UNTRACKED", "IGNORED"}
         THEN resource.resourceUri
    ELSE NoUri

getRightResource(resource) ==
    IF resource.status = "DELETED" THEN WithHg(resource.resourceUri)
    ELSE IF resource.status \in {"MODIFIED", "UNTRACKED", "IGNORED", "ADDED"}
         THEN resource.resourceUri
    ELSE NoUri

getTitle(resource) ==
    IF resource.status = "MODIFIED"
    THEN <<Basename(resource.resourceUri), " (Working Folder)">>
    ELSE <<>>

\* the locals of _openResource
NoPair == [left |-> NoUri, right |-> NoUri, title |-> <<>>]

\* a command issued to the host: none, vscode.open (right) or vscode.diff
NoView == [command |-> "", left |-> NoUri, right |-> NoUri, title |-> <<>>]

(***************************************************************************)
(* The registered commands (the @command decorators), with skipModelCheck. *)
(***************************************************************************)
Commands ==
    {"hg.refresh", "hg.openResource", "hg.clone", "hg.init", "hg.openFile",
     "hg.openChange", "hg.openFileFromUri", "hg.openChangeFromUri", "hg.stage",
     "hg.stageAll", "hg.unstage", "hg.unstageAll", "hg.clean", "hg.cleanAll",
     "hg.commit", "hg.commitWithInput", "hg.commitStaged", "hg.commitAll",
     "hg.undoCommit", "hg.update", "hg.branch", "hg.pull", "hg.push",
     "hg.pushTo", "hg.showOutput"}

\* command('hg.clone', true) is the only registration that skips the check
skipModelCheck(id) == id = "hg.clone"

\* the commands whose handlers this module follows past the wrapper: all
Handlers == Commands

\* the commands the host calls with a resource (or with none)
TakesResource == {"hg.openResource", "hg.openFile", "hg.openChange"}

\* the commands the host calls with resource states (or with none)
TakesStates == {"hg.stage", "hg.unstage", "hg.clean"}

\* the commands the host calls with a uri (or with none)
TakesUri == {"hg.openFileFromUri", "hg.openChangeFromUri"}

\* the names of the remotes a repository may have configured
Remotes == {"default"}

(***************************************************************************)
(* What an invocation does that can be seen from outside, in order.        *)
(***************************************************************************)
Event(type, name, tag) == [type |-> type, name |-> name, tag |-> tag]

\* this.telemetryReporter.sendTelemetryEvent('hg.command', { command: id })
TelemetryEvent(id) == Event("telemetry", "hg.command", id)

\* method.apply(this, args)
HandlerEvent(id) == Event("handler", id, "")

\* window.showInformationMessage(localize('disabled', ...))
DisabledNotice == Event("showInformationMessage", "disabled", "")

(***************************************************************************)
(* The source control state the handlers read, and what the host passes.   *)
(***************************************************************************)
\* the resource groups of the model: WorkingDirectoryGroup, StagingGroup,
\* MergeGroup
GroupIds == {"working", "staging", "merge"}

\* the resources of each group when the model has none
NoGroups == [working |-> {}, staging |-> {}, merge |-> {}]

\* a SourceControlResourceState: a Resource with its resourceGroup
State(r, g) == [resource |-> r, group |-> g]

\* a resource state that is not an instance of Resource
Foreign == State(NoResource, "")

\* a changed file as the groups list it
Changed(p) == [status |-> "MODIFIED", original |-> FileUri(p), resourceUri |-> FileUri(p)]

\* the model's groups with each changed file in at most one group
Placements ==
    {[working |-> {Changed(p) : p \in {q \in Paths : f[q] = "working"}},
      staging |-> {Changed(p) : p \in {q \in Paths : f[q] = "staging"}},
      merge |-> {Changed(p) : p \in {q \in Paths : f[q] = "merge"}}] :
        f \in [Paths -> GroupIds \cup {"none"}]}

\* the resource states the source control view lists for the groups gs
Listed(gs) ==
    {State(r, "working") : r \in gs.working} \cup
    {State(r, "staging") : r \in gs.staging} \cup
    {State(r, "merge") : r \in gs.merge}

\* the longest selection the host passes to stage, unstage and clean
MaxSel == 2

\* the selections of at most n distinct states out of S, in any order
Selections(S, n) ==
    {q \in UNION {[1..k -> S] : k \in 0..n} :
        \A i, j \in 1..Len(q) : i # j => q[i] # q[j]}

\* a working directory group with at most one resource, of any status
WorkingSets == {{}} \cup {{r} : r \in Resources}

\* the uris of the documents the active editor may show (NoUri: no editor)
Editors ==
    {NoUri, FileUri(<<"a.txt">>), WithHg(FileUri(<<"a.txt">>)),
     [scheme |-> "untitled", path |-> <<"a.txt">>, query |-> ""]}

\* the uris the host may pass to openFileFromUri / openChangeFromUri
UriArgs ==
    {NoUri, FileUri(<<"a.txt">>), WithHg(FileUri(<<"a.txt">>)),
     FileUri(<<"dir", "b.txt">>)}

\* the texts scm.inputBox.value may hold, and a prompt may return
InputTexts == {"", " ", "fix"}

\* undefined, where a prompt's string is expected
NoInput == "undefined"

\* truthiness of a string
NonEmpty(t) == t # NoInput /\ t # ""

\* what this.model.getCommitTemplate() resolves to
Template == "template"

\* Ref: its type (RefType.Branch, RefType.Tag) and its name ("" when it
\* has none)
Refs == {[type |-> "Branch", name |-> "default"], [type |-> "Branch", name |-> ""],
         [type |-> "Tag", name |-> "tip"]}

\* undefined, where a Ref is expected
NoRef == [type |-> "", name |-> ""]

\* the values of the hg.updateType setting ("" when unset)
UpdateTypes == {"", "all", "tags", "branches"}

\* this.model.parent: absent, without a commit, or with one
Parents == {"none", "nocommit", "commit"}

\* the repositories and settings the handlers are followed in
Repos ==
    {[parent |-> p, refs |-> {}, updateType |-> ""] : p \in Parents} \cup
    {[parent |-> "none", refs |-> R, updateType |-> u] :
        R \in SUBSET Refs, u \in UpdateTypes}

\* the repository and the settings when nothing of them is read
NoRepo == [parent |-> "none", refs |-> {}, updateType |-> ""]

\* what the handlers find between two invocations: the groups as the model
\* last read them, the input box as the user left it, the active editor,
\* the repository and the settings
Environments ==
    {[groups |-> [NoGroups EXCEPT !.working = w], inputBox |-> "", editor |-> e,
      repo |-> NoRepo] : w \in WorkingSets, e \in Editors} \cup
    {[groups |-> g, inputBox |-> "", editor |-> e, repo |-> NoRepo] :
        g \in Placements, e \in Editors} \cup
    {[groups |-> g, inputBox |-> t, editor |-> NoUri, repo |-> NoRepo] :
        g \in Placements, t \in InputTexts} \cup
    {[groups |-> NoGroups, inputBox |-> "", editor |-> NoUri, repo |-> r] :
        r \in Repos}

\* the longest branch name typed, in tokens
MaxName == 3

\* a branch name is a sequence of tokens: "." and "/" for themselves, " "
\* for a whitespace character, "~" for any of ~ ^ : \ *, "lock" for that
\* run of letters, "x" for any other character and "-" for a hyphen
NameTokens == {".", "/", " ", "~", "lock", "x"}

\* the names a user types into the prompt of hg.branch
Names == UNION {[1..n -> NameTokens] : n \in 0..MaxName}

\* undefined, where a name is expected
NoName == <<"undefined">>

\* the elements of the finite set S in the order its array lists them
RECURSIVE AsSeq(_)
AsSeq(S) ==
    IF S = {} THEN <<>>
    ELSE LET x == CHOOSE y \in S : TRUE IN <<x>> \o AsSeq(S \ {x})

\* the locals of the handler that runs
NoLocals ==
    [resource |-> NoResource, scope |-> "", buffer |-> "", message |-> "",
     didCommit |-> "", answer |-> "", resources |-> <<>>, picks |-> <<>>]

\* the arguments of the engine operation requested last
NoRequest == [resources |-> <<>>, message |-> "", all |-> FALSE, name |-> <<>>,
              ref |-> ""]

(***************************************************************************)
(* State.                                                                  *)
(***************************************************************************)
VARIABLES
    model,      \* whether this.model is bound (set by the constructor)
    paths,      \* this.model.paths: the names of the configured remotes
    cmd,        \* the id of the command of the invocation followed
    arg,        \* the resource the host passed, or NoResource
    sel,        \* the resource states the host passed (rest arguments)
    uri,        \* the uri the host passed, or NoUri
    groups,     \* the resources of the model's groups
    inputBox,   \* scm.inputBox.value
    editor,     \* window.activeTextEditor.document.uri, or NoUri
    repo,       \* this.model.parent, this.model.refs and hg.updateType
    pc,         \* where the invocation is suspended
    call,       \* how the wrapper's synchronous call ended
    promise,    \* the state of the promise the wrapper returned
    events,     \* what the invocation did, in order
    err,        \* the value caught by the wrapper's catch handler
    message,    \* the message the catch handler classified err into
    pair,       \* left, right and title of _openResource
    view,       \* the vscode.open / vscode.diff command issued
    op,         \* the engine operation or host command awaited
    locals,     \* the locals of the handler
    request,    \* the arguments of the engine operation requested last
    detached,   \* whether an engine operation runs that no handler awaits
    unhandled,  \* whether a rejection was left without any handler
    fault       \* what failed in the invocation

vars == <<model, paths, cmd, arg, sel, uri, groups, inputBox, editor, repo, pc,
          call, promise, events, err, message, pair, view, op, locals, request,
          detached, unhandled, fault>>

\* what an invocation is given and does not change
given == <<model, paths, cmd, arg, sel, uri, editor, repo>>

Init ==
    /\ model \in BOOLEAN
    /\ paths \in SUBSET Remotes
    /\ (~model => paths = {})
    /\ cmd = ""
    /\ arg = NoResource
    /\ sel = <<>>
    /\ uri = NoUri
    /\ groups = NoGroups
    /\ inputBox = ""
    /\ editor = NoUri
    /\ repo = NoRepo
    /\ pc = "idle"
    /\ call = "none"
    /\ promise = "none"
    /\ events = <<>>
    /\ err = NoErr
    /\ message = NoMessage
    /\ pair = NoPair
    /\ view = NoView
    /\ op = ""
    /\ locals = NoLocals
    /\ request = NoRequest
    /\ detached = FALSE
    /\ unhandled = FALSE
    /\ fault = "none"

(***************************************************************************)
(* How a step of a handler ends.                                           *)
(***************************************************************************)
\* the handler suspends at an await
Await(evs, at, o) ==
    /\ events' = evs
    /\ pc' = at
    /\ op' = o
    /\ call' = "promise"
    /\ promise' = "pending"

\* the handler returns: the promise of the wrapper resolves
Return(evs) ==
    /\ events' = evs
    /\ pc' = "done"
    /\ op' = ""
    /\ call' = "promise"
    /\ promise' = "resolved"

\* the rejection handler of line 549, run on the value the handler failed
\* with, up to its await of showErrorMessage
Catch(e, evs) ==
    /\ err' = e
    /\ op' = ""
    /\ call' = "promise"
    /\ IF e.kind = "null"
       THEN \* err.hgErrorCode of null / undefined: a TypeError in the callback
            /\ message' = NoMessage
            /\ events' = evs
            /\ pc' = "done"
            /\ promise' = "rejected"
       ELSE LET m == Classify(e)
            IN  /\ message' = m
                /\ IF m = NoMessage
                   THEN /\ events' = Append(evs, Event("console.error", "err", ""))
                        /\ pc' = "done"
                        /\ promise' = "resolved"
                   ELSE /\ events' = Append(evs, Event("showErrorMessage", "", ""))
                        /\ pc' = "errorDialog"
                        /\ promise' = "pending"

(***************************************************************************)
(* The handlers, from their call by the wrapper to their first await (or   *)
(* their return).  pre is what the wrapper did before the call.            *)
(***************************************************************************)
\* a handler that opens nothing and starts nothing un-awaited
Plain ==
    /\ pair' = NoPair
    /\ view' = NoView
    /\ fault' = "none"
    /\ UNCHANGED detached

\* a handler that keeps nothing in its locals and passes nothing to the engine
Bare ==
    /\ Plain
    /\ locals' = NoLocals
    /\ request' = NoRequest

\* await this.model.status()
refresh(pre) ==
    /\ Await(Append(pre, Event("engine", "status", "")), "engine", "status")
    /\ Bare

\* await this.model.init()
init(pre) ==
    /\ Await(Append(pre, Event("engine", "init", "")), "engine", "init")
    /\ Bare

\* return await this.model.stage()
stageAll(pre) ==
    /\ Await(Append(pre, Event("engine", "stage", "")), "engine", "stage")
    /\ Bare

\* return await this.model.unstage()
unstageAll(pre) ==
    /\ Await(Append(pre, Event("engine", "unstage", "")), "engine", "unstage")
    /\ Bare

pull(pre) ==
    /\ IF paths = {}
       THEN Return(Append(pre, Event("showWarningMessage", "no remotes to pull", "")))
       ELSE Await(Append(pre, Event("engine", "pull", "")), "engine", "pull")
    /\ Bare

push(pre) ==
    /\ IF paths = {}
       THEN Return(Append(pre, Event("showWarningMessage", "no paths to push", "")))
       ELSE Await(Append(pre, Event("engine", "push", "")), "engine", "push")
    /\ Bare

pushTo(pre) ==
    /\ IF paths = {}
       THEN Return(Append(pre, Event("showWarningMessage", "no remotes to push", "")))
       ELSE Await(Append(pre, Event("showQuickPick", "pick remote", "")), "pick", "")
    /\ Bare

\* not async: outputChannel.show() runs, and may throw, inside the
\* wrapper's own call
showOutput(pre) ==
    /\ pair' = NoPair
    /\ view' = NoView
    /\ locals' = NoLocals
    /\ request' = NoRequest
    /\ UNCHANGED detached
    /\ \/ /\ Return(Append(pre, Event("outputChannel.show", "", "")))
          /\ fault' = "none"
       \/ /\ events' = Append(pre, Event("outputChannel.show", "", ""))
          /\ pc' = "done"
          /\ op' = ""
          /\ call' = "threw"
          /\ promise' = "none"
          /\ fault' = "handler"

\* const url = await window.showInputBox(...)
clone(pre) ==
    /\ Await(Append(pre, Event("showInputBox", "repourl", "")), "url", "")
    /\ Bare

\* _openResource with the test of left dropped: a comparison whenever there
\* is a right side
_openResource_alwaysDiff(resource, pre) ==
    LET left == getLeftResource(resource)
        right == getRightResource(resource)
        title == getTitle(resource)
    IN  /\ pair' = [left |-> left, right |-> right, title |-> title]
        /\ fault' = "none"
        /\ locals' = [NoLocals EXCEPT !.resource = resource]
        /\ request' = NoRequest
        /\ UNCHANGED detached
        /\ IF right = NoUri
           THEN /\ Return(Append(pre, Event("console.error", "oh no", "")))
                /\ view' = NoView
           ELSE /\ Await(Append(pre, Event("executeCommand", "vscode.diff", "")),
                         "command", "vscode.diff")
                /\ view' = [command |-> "vscode.diff", left |-> left,
                            right |-> right, title |-> title]

_openResource(resource, pre) ==
    LET left == getLeftResource(resource)
        right == getRightResource(resource)
        title == getTitle(resource)
    IN  /\ pair' = [left |-> left, right |-> right, title |-> title]
        /\ fault' = "none"
        /\ locals' = [NoLocals EXCEPT !.resource = resource]
        /\ request' = NoRequest
        /\ UNCHANGED detached
        /\ IF right = NoUri
           THEN /\ Return(Append(pre, Event("console.error", "oh no", "")))
                /\ view' = NoView
           ELSE IF left = NoUri
           THEN /\ Await(Append(pre, Event("executeCommand", "vscode.open", "")),
                         "command", "vscode.open")
                /\ view' = [command |-> "vscode.open", left |-> NoUri,
                            right |-> right, title |-> <<>>]
           ELSE /\ Await(Append(pre, Event("executeCommand", "vscode.diff", "")),
                         "command", "vscode.diff")
                /\ view' = [command |-> "vscode.diff", left |-> left,
                            right |-> right, title |-> title]

openResource(resource, pre) == _openResource(resource, pre)

\* openChange going through this.openResource, which createCommand patched
\* to the wrapper: a second telemetry event
openChange_wrapped(resource, pre) ==
    IF resource = NoResource
    THEN Return(pre) /\ Bare
    ELSE _openResource(resource,
                       pre \o <<[type |-> "telemetry", name |-> "hg.command",
                                 tag |-> "hg.openResource"],
                                [type |-> "handler", name |-> "hg.openResource",
                                 tag |-> ""]>>)

openChange(resource, pre) ==
    IF resource = NoResource
    THEN Return(pre) /\ Bare
    ELSE _openResource(resource, pre)

\* commands.executeCommand('vscode.open', resource.resourceUri), awaited
OpenFile(resource, pre) ==
    /\ Await(Append(pre, Event("executeCommand", "vscode.open", "")),
             "command", "vscode.open")
    /\ pair' = NoPair
    /\ view' = [command |-> "vscode.open", left |-> NoUri,
                right |-> resource.resourceUri, title |-> <<>>]
    /\ fault' = "none"
    /\ locals' = NoLocals
    /\ request' = NoRequest
    /\ UNCHANGED detached

openFile(resource, pre) ==
    IF resource = NoResource
    THEN Return(pre) /\ Bare
    ELSE OpenFile(resource, pre)

\* the resource of the working directory group whose resourceUri prints as
\* u does, or NoResource: filter(...)[0] || filter(...)[0], both over the
\* working directory group
Lookup(u) ==
    LET found == {r \in groups.working : r.resourceUri = u}
    IN  IF found = {} THEN NoResource ELSE CHOOSE r \in found : TRUE

\* getSCMResource(uri): u is the uri passed, or NoUri
getSCMResource(u) ==
    LET target == IF u # NoUri THEN u ELSE editor
        asFile == IF target.scheme = "hg" THEN [target EXCEPT !.scheme = "file"]
                  ELSE target
    IN  IF target = NoUri THEN NoResource
        ELSE IF asFile.scheme = "file" THEN Lookup(asFile)
        ELSE NoResource

openFileFromUri(u, pre) ==
    LET resource == getSCMResource(u)
    IN  IF resource = NoResource
        THEN Return(pre) /\ Bare
        ELSE OpenFile(resource, pre)

openChangeFromUri(u, pre) ==
    LET resource == getSCMResource(u)
    IN  IF resource = NoResource
        THEN Return(pre) /\ Bare
        ELSE _openResource(resource, pre)

\* opts of smartCommit: "" when the caller passes none; the default of line
\* 367 looks at the working directory group
Scope(opts) ==
    IF opts # "" THEN opts
    ELSE IF groups.working = {} THEN "all" ELSE "staged"

\* the test of lines 370-375 with its first alternative left out
NoChanges_stagedOnly(all) == ~all /\ groups.working = {}

\* the test of lines 370-375: each of its three operands reads the working
\* directory group
NoChanges(all) ==
    \/ (groups.working = {} /\ groups.working = {})
    \/ (~all /\ groups.working = {})

\* the test of line 382 with the empty string let through
Aborts_undefinedOnly(text) == text = NoInput

\* if (!message) return false
Aborts(text) == ~NonEmpty(text)

\* the test of line 408 with message left out
ShouldRefresh_always(text, didCommit) == didCommit

\* if (message && didCommit)
ShouldRefresh(text, didCommit) == NonEmpty(text) /\ didCommit

\* smartCommit up to its first await, with the getCommitMessage of its
\* caller: the input box, then the prompt (anyInput), or the input box only
smartCommit(anyInput, opts, pre) ==
    LET scope == Scope(opts)
        buffer == inputBox
        start == [NoLocals EXCEPT !.scope = scope, !.buffer = buffer]
    IN  /\ Plain
        /\ IF NoChanges(scope = "all")
           THEN /\ Return(Append(pre, Event("showInformationMessage", "no changes", "")))
                /\ locals' = [start EXCEPT !.didCommit = "false"]
                /\ request' = NoRequest
           ELSE IF anyInput /\ ~NonEmpty(buffer)
           THEN /\ Await(Append(pre, Event("showInputBox", "commit message", "")),
                         "message", "")
                /\ locals' = start
                /\ request' = NoRequest
           ELSE IF Aborts(buffer)
           THEN /\ Return(pre)
                /\ locals' = [start EXCEPT !.didCommit = "false"]
                /\ request' = NoRequest
           ELSE /\ Await(Append(pre, Event("engine", "commit", scope)),
                         "engine", "commit")
                /\ locals' = [start EXCEPT !.message = buffer]
                /\ request' = [NoRequest EXCEPT !.message = buffer,
                                                !.all = (scope = "all")]

commitWithAnyInput(opts, pre) == smartCommit(TRUE, opts, pre)

commit(pre) == commitWithAnyInput("", pre)

commitWithInput(pre) == smartCommit(FALSE, "", pre)

commitStaged(pre) == commitWithAnyInput("staged", pre)

commitAll(pre) == commitWithAnyInput("all", pre)

\* resourceStates after lines 265-273: what the host passed or, when it
\* passed nothing, the resource getSCMResource() finds (<<>>: return)
Given(states) ==
    IF states # <<>> THEN states
    ELSE LET resource == getSCMResource(NoUri)
         IN  IF resource = NoResource THEN <<>> ELSE <<State(resource, "working")>>

\* the filter of line 276
Stageable(s) == s.resource # NoResource /\ s.group \in {"working", "merge"}

\* the filter of line 302 with the test of the group dropped
Unstageable_any(s) == s.resource # NoResource

\* the filter of line 302
Unstageable(s) == s.resource # NoResource /\ s.group = "staging"

\* the filter of line 329
Cleanable(s) == s.resource # NoResource /\ s.group = "working"

stage(states, pre) ==
    LET resources == SelectSeq(Given(states), Stageable)
    IN  /\ Plain
        /\ locals' = NoLocals
        /\ IF resources = <<>>
           THEN /\ Return(pre)
                /\ request' = NoRequest
           ELSE /\ Await(Append(pre, Event("engine", "stage", "resources")),
                         "engine", "stage")
                /\ request' = [NoRequest EXCEPT !.resources = resources]

unstage(states, pre) ==
    LET resources == SelectSeq(Given(states), Unstageable)
    IN  /\ Plain
        /\ locals' = NoLocals
        /\ IF resources = <<>>
           THEN /\ Return(pre)
                /\ request' = NoRequest
           ELSE /\ Await(Append(pre, Event("engine", "unstage", "resources")),
                         "engine", "unstage")
                /\ request' = [NoRequest EXCEPT !.resources = resources]

\* the confirmation of lines 335-337: for one file its base name, for
\* several their number
Confirmation(resources) ==
    IF Len(resources) = 1
    THEN Event("showWarningMessage", "confirm discard",
               Basename(resources[1].resource.resourceUri))
    ELSE Event("showWarningMessage", "confirm discard multiple", "files")

clean(states, pre) ==
    LET resources == SelectSeq(Given(states), Cleanable)
    IN  /\ Plain
        /\ request' = NoRequest
        /\ IF resources = <<>>
           THEN /\ Return(pre)
                /\ locals' = NoLocals
           ELSE /\ Await(Append(pre, Confirmation(resources)), "confirm", "")
                /\ locals' = [NoLocals EXCEPT !.resources = resources]

cleanAll(pre) ==
    /\ Await(Append(pre, Event("showWarningMessage", "confirm discard all", "")),
             "confirm", "")
    /\ Bare

\* HEAD of undoCommit: returns without HEAD or without HEAD.commit
undoCommit(pre) ==
    /\ IF repo.parent # "commit"
       THEN Return(pre)
       ELSE Await(Append(pre, Event("engine", "getCommit", "HEAD")), "engine", "getCommit")
    /\ Bare

\* the picks of update: the branches, then (unless hg.updateType excludes
\* them) the tags
Picks ==
    LET checkoutType == IF repo.updateType = "" THEN "all" ELSE repo.updateType
        includeTags == checkoutType \in {"all", "tags"}
        heads == AsSeq({ref \in repo.refs : ref.type = "Branch"})
        tags == IF includeTags THEN AsSeq({ref \in repo.refs : ref.type = "Tag"})
                ELSE <<>>
    IN  heads \o tags

update(pre) ==
    /\ Await(Append(pre, Event("showQuickPick", "select ref", "")), "choose", "")
    /\ Plain
    /\ locals' = [NoLocals EXCEPT !.picks = Picks]
    /\ request' = NoRequest

branch(pre) ==
    /\ Await(Append(pre, Event("showInputBox", "branch name", "")), "name", "")
    /\ Bare

\* method.apply(this, args) for the handler registered under id
Apply(id, a, s, u, pre) ==
    CASE id = "hg.refresh" -> refresh(pre)
      [] id = "hg.init" -> init(pre)
      [] id = "hg.stageAll" -> stageAll(pre)
      [] id = "hg.unstageAll" -> unstageAll(pre)
      [] id = "hg.pull" -> pull(pre)
      [] id = "hg.push" -> push(pre)
      [] id = "hg.pushTo" -> pushTo(pre)
      [] id = "hg.showOutput" -> showOutput(pre)
      [] id = "hg.clone" -> clone(pre)
      [] id = "hg.openResource" -> openResource(a, pre)
      [] id = "hg.openChange" -> openChange(a, pre)
      [] id = "hg.openFile" -> openFile(a, pre)
      [] id = "hg.openFileFromUri" -> openFileFromUri(u, pre)
      [] id = "hg.openChangeFromUri" -> openChangeFromUri(u, pre)
      [] id = "hg.stage" -> stage(s, pre)
      [] id = "hg.unstage" -> unstage(s, pre)
      [] id = "hg.clean" -> clean(s, pre)
      [] id = "hg.cleanAll" -> cleanAll(pre)
      [] id = "hg.undoCommit" -> undoCommit(pre)
      [] id = "hg.update" -> update(pre)
      [] id = "hg.branch" -> branch(pre)
      [] id = "hg.commit" -> commit(pre)
      [] id = "hg.commitWithInput" -> commitWithInput(pre)
      [] id = "hg.commitStaged" -> commitStaged(pre)
      [] id = "hg.commitAll" -> commitAll(pre)

(***************************************************************************)
(* The wrapper built by createCommand (lines 539-548): the guard, the      *)
(* telemetry event and the call of the handler, in one synchronous run.    *)
(***************************************************************************)
\* the guard with the negation of skipModelCheck dropped
GuardFails_skipOnly(id) == skipModelCheck(id) /\ ~model

\* !skipModelCheck && !this.model
GuardFails(id) == ~skipModelCheck(id) /\ ~model

\* what the wrapper has done when the handler starts to run
Entered(id) == <<TelemetryEvent(id), HandlerEvent(id)>>

\* the commands whose handlers read the groups, the active editor, the
\* input box, the repository or the settings
ReadsGroups ==
    {"hg.openFileFromUri", "hg.openChangeFromUri", "hg.stage", "hg.unstage",
     "hg.clean", "hg.cleanAll", "hg.commit", "hg.commitWithInput",
     "hg.commitStaged", "hg.commitAll"}

ReadsEditor ==
    {"hg.openFileFromUri", "hg.openChangeFromUri", "hg.stage", "hg.unstage",
     "hg.clean"}

ReadsInputBox == {"hg.commit", "hg.commitWithInput", "hg.commitStaged", "hg.commitAll"}

ReadsRepo == {"hg.undoCommit", "hg.update"}

\* a command is followed from the states that differ from the idle one in
\* what its handler reads only
Fits(id, s) ==
    /\ id \notin ReadsGroups => groups = NoGroups
    /\ (id \notin ReadsEditor \/ s # <<>>) => editor = NoUri
    /\ id \notin ReadsInputBox => inputBox = ""
    /\ id \notin ReadsRepo => repo = NoRepo

Dispatch ==
    /\ pc = "idle"
    /\ \E id \in Commands, a \in Resources \cup {NoResource},
          s \in Selections(Listed(groups) \cup {Foreign}, MaxSel),
          u \in UriArgs, telemetryOk \in BOOLEAN :
        /\ id \notin TakesResource => a = NoResource
        /\ id = "hg.openResource" => a # NoResource
        /\ id \notin TakesStates => s = <<>>
        /\ id \notin TakesUri => u = NoUri
        /\ Fits(id, s)
        /\ cmd' = id
        /\ arg' = a
        /\ sel' = s
        /\ uri' = u
        /\ err' = NoErr
        /\ message' = NoMessage
        /\ UNCHANGED <<model, paths, groups, inputBox, editor, repo, unhandled>>
        /\ IF GuardFails(id)
           THEN /\ events' = <<DisabledNotice>>
                /\ pc' = "done"
                /\ op' = ""
                /\ call' = "returned"
                /\ promise' = "none"
                /\ Bare
           ELSE IF ~telemetryOk
           THEN \* sendTelemetryEvent throws: so does the wrapper
                /\ events' = <<TelemetryEvent(id)>>
                /\ pc' = "done"
                /\ op' = ""
                /\ call' = "threw"
                /\ promise' = "none"
                /\ pair' = NoPair
                /\ view' = NoView
                /\ locals' = NoLocals
                /\ request' = NoRequest
                /\ fault' = "telemetry"
                /\ UNCHANGED detached
           ELSE /\ id \in Handlers
                /\ Apply(id, a, s, u, Entered(id))

\* between two invocations the model reads the repository again, the user
\* edits the input box or moves to another editor
Change ==
    /\ pc = "idle"
    /\ model
    /\ \E e \in Environments :
        /\ groups' = e.groups
        /\ inputBox' = e.inputBox
        /\ editor' = e.editor
        /\ repo' = e.repo
    /\ UNCHANGED <<model, paths, cmd, arg, sel, uri, pc, call, promise, events, err,
                   message, pair, view, op, locals, request, detached, unhandled,
                   fault>>

(***************************************************************************)
(* The handlers after their awaits.                                        *)
(***************************************************************************)
\* hg.clone's failure text that its catch block tells apart (line 209)
NotEmptyText == <<"already exists and is not an empty directory">>

\* the values an engine operation can fail with
EngineErrs ==
    Errs \cup {[kind |-> "object", hgErrorCode |-> "", stderr |-> NotEmptyText,
                message |-> Undefined]}

\* the values a command of the host can fail with: they carry no stderr
HostErrs ==
    {NullErr,
     [kind |-> "object", hgErrorCode |-> "", stderr |-> Undefined, message |-> <<"x">>]}

\* /already exists and is not an empty directory/.test(err && err.stderr || '')
CloneOutcome(e) ==
    IF e.kind # "null" /\ Truthy(e.stderr)
       /\ \E i \in 1..Len(e.stderr) : e.stderr[i] = NotEmptyText[1]
    THEN "directory_not_empty"
    ELSE "error"

\* the failures an engine operation is followed with: every value for the
\* operations requested without arguments from the idle state, a few
\* otherwise
FewErrs ==
    {NullErr,
     [kind |-> "object", hgErrorCode |-> "DirtyWorkTree", stderr |-> Undefined,
      message |-> Undefined],
     [kind |-> "object", hgErrorCode |-> "", stderr |-> <<"x">>, message |-> Undefined]}

Failures(id) ==
    IF id \in {"hg.refresh", "hg.init", "hg.stageAll", "hg.unstageAll", "hg.pull",
               "hg.push", "hg.clone"}
    THEN EngineErrs
    ELSE FewErrs

\* commit.message of the commit that model.getCommit('HEAD') resolves to
LastMessage == "last message"

\* the awaited engine operation succeeds
EngineOk ==
    /\ pc = "engine"
    /\ IF cmd = "hg.clone"
       THEN /\ Await(Append(events, Event("showInformationMessage", "proposeopen", "")),
                     "propose", "")
            /\ UNCHANGED <<locals, inputBox>>
       ELSE IF op = "commit"
       THEN \* smartCommit returns true to commitWithAnyInput / commitWithInput
            /\ locals' = [locals EXCEPT !.didCommit = "true"]
            /\ IF (cmd = "hg.commitWithInput") \/ ShouldRefresh(locals.buffer, TRUE)
               THEN Await(Append(events, Event("engine", "getCommitTemplate", "")),
                          "template", "getCommitTemplate")
               ELSE Return(events)
            /\ UNCHANGED inputBox
       ELSE IF op = "getCommit"
       THEN \* undoCommit: await this.model.reset('HEAD~')
            /\ Await(Append(events, Event("engine", "reset", "HEAD~")), "engine", "reset")
            /\ UNCHANGED <<locals, inputBox>>
       ELSE IF op = "reset"
       THEN \* undoCommit: scm.inputBox.value = commit.message
            /\ Return(Append(events, Event("inputBox", "value", LastMessage)))
            /\ inputBox' = LastMessage
            /\ UNCHANGED locals
       ELSE /\ Return(events)
            /\ UNCHANGED <<locals, inputBox>>
    /\ UNCHANGED <<given, groups, request, err, message, pair, view, detached,
                   unhandled, fault>>

\* the awaited engine operation fails: the handler fails with the same value
\* (clone reports the outcome and rethrows)
EngineFail ==
    /\ pc = "engine"
    /\ \E e \in Failures(cmd) :
        Catch(e, IF cmd = "hg.clone"
                 THEN Append(events, Event("telemetry", "clone", CloneOutcome(e)))
                 ELSE events)
    /\ fault' = "engine"
    /\ UNCHANGED <<given, groups, inputBox, locals, request, pair, view, detached,
                   unhandled>>

\* smartCommit after the prompt for a commit message
Message ==
    /\ pc = "message"
    /\ \E text \in InputTexts \cup {NoInput} :
        IF Aborts(text)
        THEN /\ Return(events)
             /\ locals' = [locals EXCEPT !.message = text, !.didCommit = "false",
                               !.answer = IF text = NoInput THEN "dismissed" ELSE "empty"]
             /\ UNCHANGED request
        ELSE /\ Await(Append(events, Event("engine", "commit", locals.scope)),
                      "engine", "commit")
             /\ locals' = [locals EXCEPT !.message = text, !.answer = "given"]
             /\ request' = [NoRequest EXCEPT !.message = text,
                                             !.all = (locals.scope = "all")]
    /\ UNCHANGED <<given, groups, inputBox, err, message, pair, view, detached,
                   unhandled, fault>>

\* scm.inputBox.value = await this.model.getCommitTemplate()
CommitTemplate ==
    /\ pc = "template"
    /\ inputBox' = Template
    /\ Return(Append(events, Event("inputBox", "value", Template)))
    /\ UNCHANGED <<given, groups, locals, request, err, message, pair, view,
                   detached, unhandled, fault>>

\* the test of line 342 dropped: any answer discards
Discards_any(pick) == TRUE

\* if (pick !== yes) return
Discards(pick) == pick = "Discard Changes"

\* clean and cleanAll after the modal confirmation; cleanAll reads the
\* working directory group now
Confirm ==
    /\ pc = "confirm"
    /\ \E pick \in {"Discard Changes", NoInput} :
        IF ~Discards(pick)
        THEN /\ Return(events)
             /\ locals' = [locals EXCEPT !.answer = "dismissed"]
             /\ UNCHANGED request
        ELSE /\ Await(Append(events, Event("engine", "clean", "resources")),
                      "engine", "clean")
             /\ locals' = [locals EXCEPT !.answer = pick]
             /\ request' =
                   [NoRequest EXCEPT !.resources =
                       IF cmd = "hg.cleanAll"
                       THEN AsSeq({State(r, "working") : r \in groups.working})
                       ELSE locals.resources]
    /\ UNCHANGED <<given, groups, inputBox, err, message, pair, view, detached,
                   unhandled, fault>>

\* update after the quick pick: nothing chosen, or choice.run(this.model)
\* (lines 28-36), which returns when the ref has no name
Choose ==
    /\ pc = "choose"
    /\ \E choice \in {locals.picks[i] : i \in 1..Len(locals.picks)} \cup {NoRef} :
        IF choice = NoRef
        THEN /\ Return(events)
             /\ locals' = [locals EXCEPT !.answer = "dismissed"]
             /\ UNCHANGED request
        ELSE IF choice.name = ""
        THEN /\ Return(events)
             /\ locals' = [locals EXCEPT !.answer = "given"]
             /\ UNCHANGED request
        ELSE /\ Await(Append(events, Event("engine", "checkout", choice.name)),
                      "engine", "checkout")
             /\ locals' = [locals EXCEPT !.answer = "given"]
             /\ request' = [NoRequest EXCEPT !.ref = choice.name]
    /\ UNCHANGED <<given, groups, inputBox, err, message, pair, view, detached,
                   unhandled, fault>>

\* the length of the match of the regular expression of line 485 at
\* position i of the name t, its alternatives tried in order: 0 when none
\* matches
MatchAt(t, i) ==
    LET n == Len(t)
        at(j, c) == j <= n /\ t[j] = c
    IN  IF i = 1 /\ at(i, ".") THEN 1
        ELSE IF at(i, "/") /\ at(i + 1, ".") THEN 2
        ELSE IF at(i, ".") /\ at(i + 1, ".") THEN 2
        ELSE IF at(i, "~") THEN 1
        ELSE IF at(i, "/") /\ i = n THEN 1
        ELSE IF at(i, ".") /\ at(i + 1, "lock") /\ i + 1 = n THEN 2
        ELSE IF at(i, ".") /\ at(i + 1, "lock") /\ at(i + 2, "/") THEN 3
        ELSE IF at(i, " ") THEN 1
        ELSE IF at(i, ".") /\ i = n THEN 1
        ELSE 0

\* result.replace(/.../g, '-') from position i on
RECURSIVE SanitizeFrom(_, _)
SanitizeFrom(t, i) ==
    IF i > Len(t) THEN <<>>
    ELSE LET m == MatchAt(t, i)
         IN  IF m = 0 THEN <<t[i]>> \o SanitizeFrom(t, i + 1)
             ELSE <<"-">> \o SanitizeFrom(t, i + m)

Sanitize(t) == SanitizeFrom(t, 1)

\* branch after the prompt for a name
BranchName ==
    /\ pc = "name"
    /\ \E result \in Names \cup {NoName} :
        IF result = NoName \/ result = <<>>
        THEN /\ Return(events)
             /\ locals' = [locals EXCEPT
                               !.answer = IF result = NoName THEN "dismissed" ELSE "empty"]
             /\ UNCHANGED request
        ELSE /\ Await(Append(events, Event("engine", "branch", "")), "engine", "branch")
             /\ locals' = [locals EXCEPT !.answer = "given"]
             /\ request' = [NoRequest EXCEPT !.name = Sanitize(result)]
    /\ UNCHANGED <<given, groups, inputBox, err, message, pair, view, detached,
                   unhandled, fault>>

\* the awaited vscode.open / vscode.diff succeeds
CommandOk ==
    /\ pc = "command"
    /\ Return(events)
    /\ UNCHANGED <<given, groups, inputBox, locals, request, err, message, pair,
                   view, detached, unhandled, fault>>

\* the awaited vscode.open / vscode.diff fails
CommandFail ==
    /\ pc = "command"
    /\ \E e \in HostErrs : Catch(e, events)
    /\ fault' = "command"
    /\ UNCHANGED <<given, groups, inputBox, locals, request, pair, view, detached,
                   unhandled>>

\* pushTo after showQuickPick: nothing picked, or this.model.push(pick.label)
\* started and not awaited
Pick ==
    /\ pc = "pick"
    /\ \E choice \in paths \cup {""} :
        IF choice = ""
        THEN /\ Return(events)
             /\ locals' = [locals EXCEPT !.answer = "dismissed"]
             /\ UNCHANGED detached
        ELSE /\ Return(Append(events, Event("engine", "push", choice)))
             /\ locals' = [locals EXCEPT !.answer = choice]
             /\ detached' = TRUE
    /\ UNCHANGED <<given, groups, inputBox, request, err, message, pair, view,
                   unhandled, fault>>

\* an engine operation that no handler awaits succeeds
DetachedOk ==
    /\ detached
    /\ detached' = FALSE
    /\ UNCHANGED <<given, groups, inputBox, locals, request, pc, call, promise,
                   events, err, message, pair, view, op, unhandled, fault>>

\* an engine operation that no handler awaits fails: its rejection has no
\* handler
DetachedFail ==
    /\ detached
    /\ detached' = FALSE
    /\ unhandled' = TRUE
    /\ UNCHANGED <<given, groups, inputBox, locals, request, pc, call, promise,
                   events, err, message, pair, view, op, fault>>

\* clone after the url prompt
Url ==
    /\ pc = "url"
    /\ \E answered \in BOOLEAN :
        IF ~answered
        THEN /\ Return(Append(events, Event("telemetry", "clone", "no_URL")))
             /\ locals' = [locals EXCEPT !.answer = "dismissed"]
        ELSE /\ Await(Append(events, Event("showInputBox", "parent", "")), "parent", "")
             /\ locals' = [locals EXCEPT !.answer = "url"]
    /\ UNCHANGED <<given, groups, inputBox, request, err, message, pair, view,
                   detached, unhandled, fault>>

\* clone after the parent directory prompt
Parent ==
    /\ pc = "parent"
    /\ \E answered \in BOOLEAN :
        IF ~answered
        THEN /\ Return(Append(events, Event("telemetry", "clone", "no_directory")))
             /\ locals' = [locals EXCEPT !.answer = "dismissed"]
        ELSE /\ Await(events \o <<Event("engine", "clone", ""),
                                  Event("setStatusBarMessage", "cloning", "")>>,
                      "engine", "clone")
             /\ locals' = [locals EXCEPT !.answer = "parent"]
    /\ UNCHANGED <<given, groups, inputBox, request, err, message, pair, view,
                   detached, unhandled, fault>>

\* clone after the offer to open the cloned repository
Propose ==
    /\ pc = "propose"
    /\ \E openFolder \in BOOLEAN :
        LET sent == Append(events, Event("telemetry", "clone",
                                         IF openFolder THEN "success:1" ELSE "success:0"))
        IN  IF openFolder
            THEN Return(Append(sent, Event("executeCommand", "vscode.openFolder", "")))
            ELSE Return(sent)
    /\ UNCHANGED <<given, groups, inputBox, locals, request, err, message, pair,
                   view, detached, unhandled, fault>>

\* the catch handler after showErrorMessage (lines 578-582)
ErrorDialog ==
    /\ pc = "errorDialog"
    /\ \E outcome \in {"open", "dismissed", "failed"} :
        /\ events' = IF outcome = "open"
                     THEN Append(events, Event("outputChannel.show", "", ""))
                     ELSE events
        /\ promise' = IF outcome = "failed" THEN "rejected" ELSE "resolved"
        /\ fault' = IF outcome = "failed" THEN "dialog" ELSE fault
    /\ pc' = "done"
    /\ UNCHANGED <<given, groups, inputBox, locals, request, call, err, message,
                   pair, view, op, detached, unhandled>>

\* the invocation is over and nothing it started is still running: the next
\* one is followed
Finish ==
    /\ pc = "done"
    /\ ~detached
    /\ cmd' = ""
    /\ arg' = NoResource
    /\ sel' = <<>>
    /\ uri' = NoUri
    /\ groups' = NoGroups
    /\ inputBox' = ""
    /\ editor' = NoUri
    /\ repo' = NoRepo
    /\ pc' = "idle"
    /\ call' = "none"
    /\ promise' = "none"
    /\ events' = <<>>
    /\ err' = NoErr
    /\ message' = NoMessage
    /\ pair' = NoPair
    /\ view' = NoView
    /\ op' = ""
    /\ locals' = NoLocals
    /\ request' = NoRequest
    /\ unhandled' = FALSE
    /\ fault' = "none"
    /\ UNCHANGED <<model, paths, detached>>

Next ==
    \/ Dispatch
    \/ Change
    \/ Finish
    \/ EngineOk
    \/ EngineFail
    \/ Message
    \/ CommitTemplate
    \/ Confirm
    \/ Choose
    \/ BranchName
    \/ CommandOk
    \/ CommandFail
    \/ Pick
    \/ DetachedOk
    \/ DetachedFail
    \/ Url
    \/ Parent
    \/ Propose
    \/ ErrorDialog

Spec == Init /\ [][Next]_vars

(***************************************************************************)
(* Interleaved dispatches.  The wrappers take no lock: while smartCommit   *)
(* waits for the commit message (line 380) the host may run another        *)
(* command to its end (refresh, clean, cleanAll, a second commit), after   *)
(* which the model lists its groups anew.                                  *)
(***************************************************************************)
Interleave ==
    /\ pc = "message"
    /\ \E g \in Placements :
        /\ g # groups
        /\ groups' = g
    /\ UNCHANGED <<given, inputBox, pc, call, promise, events, err, message, pair,
                   view, op, locals, request, detached, unhandled, fault>>

NextInterleaved ==
    \/ Next
    \/ Interleave

SpecInterleaved == Init /\ [][NextInterleaved]_vars

(***************************************************************************)
(* Properties.                                                             *)
(***************************************************************************)
\* the events of one type
OfType(type) == SelectSeq(events, LAMBDA e : e.type = type)

\* the 'hg.command' telemetry events
CommandTelemetry == SelectSeq(events, LAMBDA e : e.type = "telemetry" /\ e.name = "hg.command")

\* the handler of the invocation was called
HandlerCalled == \E i \in 1..Len(events) : events[i] = HandlerEvent(cmd)

\* the catch handler ran on a value other than null / undefined
Classified == pc \in {"errorDialog", "done"} /\ err.kind = "object"

\* C1: when a command registered without skipModelCheck is dispatched while
\* no model is bound, whatever its arguments, the handler is not called, no
\* telemetry event is sent, exactly one informational notice is shown and
\* the call returns.
C1_GuardShortCircuits ==
    (pc # "idle" /\ ~skipModelCheck(cmd) /\ ~model) =>
        /\ OfType("handler") = <<>>
        /\ OfType("telemetry") = <<>>
        /\ OfType("showInformationMessage") = <<DisabledNotice>>
        /\ Len(events) = 1
        /\ call = "returned"
        /\ promise = "none"
        /\ pc = "done"

C1_Witness ==
    /\ ~model
    /\ cmd = "hg.openChange"
    /\ arg # NoResource
    /\ arg.status = "MODIFIED"
    /\ events = <<DisabledNotice>>
    /\ call = "returned"

\* C2: however the handler fails (a synchronous throw, a rejection with any
\* value, a failure of the error dialog), the wrapper's call returns
\* normally and the promise it returned does not reject.
C2_NoFailureEscapes ==
    fault \in {"handler", "engine", "command", "dialog"} =>
        /\ call # "threw"
        /\ promise # "rejected"

\* a text that is absent, empty or made of blanks and line breaks only
Blank(t) == t = Undefined \/ \A i \in 1..Len(t) : t[i] \in {" ", "\n"}

\* C3: when the handler fails with a value that has no recognized code and
\* only empty or whitespace-only diagnostic text, no error dialog is shown
\* and exactly one diagnostic log entry is written.
C3_SilentFailure ==
    (Classified /\ err.hgErrorCode = "" /\ Blank(err.stderr) /\ Blank(err.message)) =>
        /\ OfType("showErrorMessage") = <<>>
        /\ Len(OfType("console.error")) = 1

\* C4: the failure of an engine operation that a handler requested reaches
\* the catch handler of the invocation that requested it; none is left
\* without a handler once the invocation has resolved.
C4_EngineFailureReachesBoundary ==
    /\ ~unhandled
    /\ fault = "engine" => err # NoErr

\* C5: when sending the telemetry event fails, the handler is still called
\* and the wrapper's call still returns normally.
C5_TelemetryFailureHarmless ==
    fault = "telemetry" => (HandlerCalled /\ call # "threw")

\* C6: an invocation that passes the guard sends exactly one 'hg.command'
\* telemetry event, tagged with its own command id, before the handler is
\* called, and no handler adds a second one, however the handler ends.
C6_OneTelemetryEvent ==
    (pc # "idle" /\ ~GuardFails(cmd)) =>
        /\ CommandTelemetry = <<TelemetryEvent(cmd)>>
        /\ events[1] = TelemetryEvent(cmd)
        /\ Len(OfType("handler")) <= 1
        /\ \A i \in 1..Len(events) : events[i].type = "handler" => i = 2

C6_Witness ==
    /\ cmd = "hg.openChange"
    /\ arg # NoResource
    /\ pc = "done"
    /\ promise = "resolved"
    /\ err.kind = "object"
    /\ OfType("showErrorMessage") # <<>>
    /\ CommandTelemetry = <<TelemetryEvent("hg.openChange")>>

\* a line without its noise prefixes: a leading "error: " goes, and a line
\* that then starts with "> husky" goes whole
StripLine(l) ==
    LET l1 == IF l # <<>> /\ l[1] = "error: " THEN Tail(l) ELSE l
    IN  IF l1 # <<>> /\ l1[1] = "> husky" THEN <<>> ELSE l1

\* the first line that is non-empty once every line is stripped
StrippedHint(t) ==
    LET lines == SplitLines(t)
        stripped == [i \in 1..Len(lines) |-> StripLine(lines[i])]
    IN  First(FilterNonEmpty(stripped))

\* err.stderr || err.message
DiagnosticText(e) == IF Truthy(e.stderr) THEN e.stderr ELSE e.message

\* C7: a failure with the code 'DirtyWorkTree' yields the clean-your-working-
\* tree message whatever its text; any other failure with non-empty text
\* yields the message built from the first non-empty line of the text with
\* the noise prefixes stripped (the generic message if no such line is left).
C7_Classification ==
    Classified =>
        IF err.hgErrorCode = "DirtyWorkTree"
        THEN message = <<"clean repo">>
        ELSE Truthy(DiagnosticText(err)) =>
                message = IF Truthy(StrippedHint(DiagnosticText(err)))
                          THEN <<"Hg: ">> \o StrippedHint(DiagnosticText(err))
                          ELSE <<"Hg error">>

\* _openResource ran on the resource the host passed
Resolved ==
    /\ cmd \in {"hg.openResource", "hg.openChange"}
    /\ arg # NoResource
    /\ HandlerCalled

\* C8: for a resource with status DELETED the left and the right reference
\* are equal, also when its original reference differs from its current one.
C8_DeletedSidesEqual ==
    (Resolved /\ arg.status = "DELETED") => pair.left = pair.right

\* C9: the left reference is none for ADDED, UNTRACKED and IGNORED, and for
\* every other status the historical view (scheme hg, revision ".") of the
\* resource's original reference.
C9_LeftReference ==
    Resolved =>
        pair.left = IF arg.status \in {"ADDED", "UNTRACKED", "IGNORED"}
                    THEN NoUri
                    ELSE [scheme |-> "hg", path |-> arg.original.path, query |-> "."]

C9_Witness ==
    /\ Resolved
    /\ arg.status = "CLEAN"
    /\ arg.original # arg.resourceUri
    /\ pair.left = [scheme |-> "hg", path |-> arg.original.path, query |-> "."]

\* C10: the right reference is the historical view for DELETED, the current
\* reference for MODIFIED, UNTRACKED, IGNORED and ADDED, and none for every
\* other status; the title is "<basename> (Working Folder)" for MODIFIED and
\* empty for every other status.
C10_RightReferenceAndTitle ==
    Resolved =>
        /\ pair.right =
             IF arg.status = "DELETED"
             THEN [scheme |-> "hg", path |-> arg.resourceUri.path, query |-> "."]
             ELSE IF arg.status \in {"MODIFIED", "UNTRACKED", "IGNORED", "ADDED"}
                  THEN arg.resourceUri
             ELSE NoUri
        /\ pair.title =
             IF arg.status = "MODIFIED"
             THEN <<arg.resourceUri.path[Len(arg.resourceUri.path)], " (Working Folder)">>
             ELSE <<>>

C10_Witness ==
    /\ Resolved
    /\ arg.status = "MODIFIED"
    /\ arg.resourceUri.path = <<"dir", "b.txt">>
    /\ pair.right = arg.resourceUri
    /\ pair.title = <<"b.txt", " (Working Folder)">>

(***************************************************************************)
(* Opening a resource.                                                     *)
(***************************************************************************)
\* the commands that open the change of a resource
OpensChange == {"hg.openResource", "hg.openChange", "hg.openChangeFromUri"}

\* the host commands issued to show something
Shown == OfType("executeCommand")

\* C11: for every resource given to openResource, openChange or
\* openChangeFromUri: with no right reference a diagnostic is logged and no
\* view command is issued; with a right reference and no left one exactly
\* one vscode.open of the right reference is issued and no comparison; with
\* both exactly one vscode.diff of (left, right, title) is issued and no
\* vscode.open.
C11_OpenContract ==
    (cmd \in OpensChange /\ locals.resource # NoResource) =>
        /\ locals.resource = (IF cmd = "hg.openChangeFromUri"
                              THEN getSCMResource(uri) ELSE arg)
        /\ pair.left = getLeftResource(locals.resource)
        /\ pair.right = getRightResource(locals.resource)
        /\ IF pair.right = NoUri
           THEN /\ OfType("console.error") = <<Event("console.error", "oh no", "")>>
                /\ Shown = <<>>
                /\ view = NoView
           ELSE IF pair.left = NoUri
           THEN /\ Shown = <<Event("executeCommand", "vscode.open", "")>>
                /\ view = [command |-> "vscode.open", left |-> NoUri,
                           right |-> pair.right, title |-> <<>>]
           ELSE /\ Shown = <<Event("executeCommand", "vscode.diff", "")>>
                /\ view = [command |-> "vscode.diff", left |-> pair.left,
                           right |-> pair.right, title |-> pair.title]

C11_Witness ==
    /\ cmd = "hg.openChangeFromUri"
    /\ uri = NoUri
    /\ editor = FileUri(<<"a.txt">>)
    /\ locals.resource \in groups.working
    /\ locals.resource.status = "UNTRACKED"
    /\ pair.left = NoUri
    /\ view.command = "vscode.open"
    /\ view.right = editor
    /\ pc = "done"
    /\ promise = "resolved"

(***************************************************************************)
(* Smart commit.                                                           *)
(***************************************************************************)
\* the commands that end in smartCommit
SmartCommits == {"hg.commit", "hg.commitWithInput", "hg.commitStaged", "hg.commitAll"}

\* smartCommit ran and resolved its scope
Committing == cmd \in SmartCommits /\ locals.scope # ""

\* the requests of the engine's commit
CommitCalls == SelectSeq(events, LAMBDA e : e.type = "engine" /\ e.name = "commit")

\* the 'no changes' notice of line 376
NoChangesNotice == Event("showInformationMessage", "no changes", "")

\* the prompt for a commit message was shown
Prompted == OfType("showInputBox") # <<>>

\* the input box was set to the engine's template
Refreshed == \E i \in 1..Len(events) : events[i] = Event("inputBox", "value", Template)

\* C12: when smartCommit is called without options the scope is 'all'
\* exactly when the staging group is empty, and 'staged only' otherwise; the
\* scope forced by commitStaged and commitAll is used unchanged.
C12_ScopeDefault ==
    Committing =>
        /\ cmd \in {"hg.commit", "hg.commitWithInput"} =>
               (locals.scope = "all" <=> groups.staging = {})
        /\ cmd = "hg.commitStaged" => locals.scope = "staged"
        /\ cmd = "hg.commitAll" => locals.scope = "all"

\* there is nothing to commit under the resolved scope: nothing staged
\* under 'staged only', nothing staged and nothing in the working directory
\* under 'all'
NothingUnderScope ==
    \/ locals.scope = "staged" /\ groups.staging = {}
    \/ locals.scope = "all" /\ groups.staging = {} /\ groups.working = {}

\* C13: when there is nothing to commit under the resolved scope,
\* smartCommit shows the 'no changes' notice, never asks for a message,
\* never requests the engine's commit and returns false: in particular for
\* commitStaged with nothing staged and changes in the working directory.
\* Stated for the scopes forced by commitStaged and commitAll, which do not
\* depend on the default of C12.
C13_NoChangesAborts ==
    (Committing /\ cmd \in {"hg.commitStaged", "hg.commitAll"} /\ NothingUnderScope) =>
        /\ OfType("showInformationMessage") = <<NoChangesNotice>>
        /\ ~Prompted
        /\ CommitCalls = <<>>
        /\ locals.didCommit = "false"

\* C14: with nothing staged and nothing changed in the working directory,
\* each of commit, commitWithInput, commitStaged and commitAll, whatever the
\* input box holds, never requests the engine's commit and ends with
\* smartCommit returning false and no failure.
C14_NothingToCommit ==
    (cmd \in SmartCommits /\ HandlerCalled /\ groups.staging = {}
        /\ groups.working = {}) =>
        /\ CommitCalls = <<>>
        /\ locals.didCommit = "false"
        /\ pc = "done"
        /\ promise = "resolved"
        /\ err = NoErr
        /\ fault = "none"
        /\ OfType("showErrorMessage") = <<>>

C14_Witness ==
    /\ cmd = "hg.commitAll"
    /\ inputBox = "fix"
    /\ groups = NoGroups
    /\ events = Entered(cmd) \o <<NoChangesNotice>>
    /\ locals.didCommit = "false"
    /\ promise = "resolved"

EngineCalls(name) == SelectSeq(events, LAMBDA e : e.type = "engine" /\ e.name = name)

\* the engine operation a command of TakesStates requests
Operation(id) ==
    CASE id = "hg.stage" -> "stage"
      [] id = "hg.unstage" -> "unstage"
      [] id = "hg.clean" -> "clean"

\* the groups whose resources a command of TakesStates acts on
Eligible(id) ==
    CASE id = "hg.stage" -> {"working", "merge"}
      [] id = "hg.unstage" -> {"staging"}
      [] id = "hg.clean" -> {"working"}

\* the changed resource of the file the active editor shows, in whatever
\* group it is
Focused == {s \in Listed(groups) : editor.scheme = "file" /\ s.resource.resourceUri = editor}

\* the confirmation of clean was shown
AskedToDiscard ==
    \E i \in 1..Len(events) :
        events[i].type = "showWarningMessage" /\ events[i].name = "confirm discard"

\* C17: stage, unstage and clean called with no arguments act on the
\* changed resource of the active editor's file as if it had been passed as
\* the only argument: in particular unstage requests the engine to unstage
\* the focused file when it is a staged resource.
C17_FocusedResource ==
    (cmd \in TakesStates /\ sel = <<>> /\ HandlerCalled) =>
        \A s \in Focused :
            s.group \in Eligible(cmd) =>
                IF cmd = "hg.clean"
                THEN /\ AskedToDiscard
                     /\ locals.resources = <<s>>
                ELSE /\ EngineCalls(Operation(cmd)) # <<>>
                     /\ request.resources = <<s>>

\* C18: stage passes to the engine only the resources of the working
\* directory and merge groups, unstage only those of the staging group and
\* clean only those of the working directory group, in the order given and
\* with every other state dropped; when none is left the engine operation
\* is not requested at all.
C18_GroupGate ==
    (cmd \in TakesStates /\ HandlerCalled) =>
        LET eligible == SelectSeq(Given(sel), LAMBDA s : s.resource # NoResource
                                                        /\ s.group \in Eligible(cmd))
            calls == EngineCalls(Operation(cmd))
        IN  /\ Len(calls) <= 1
            /\ calls # <<>> => request.resources = eligible
            /\ eligible = <<>> =>
                  /\ calls = <<>>
                  /\ request.resources = <<>>
                  /\ OfType("showWarningMessage") = <<>>
                  /\ pc = "done"
            /\ (eligible # <<>> /\ cmd # "hg.clean") => Len(calls) = 1
            /\ (eligible # <<>> /\ cmd = "hg.clean") => locals.resources = eligible

C18_Witness ==
    /\ cmd = "hg.unstage"
    /\ Len(sel) = 2
    /\ sel[1].group = "working"
    /\ sel[2].group = "staging"
    /\ request.resources = <<sel[2]>>
    /\ EngineCalls("unstage") # <<>>
    /\ pc = "done"

(***************************************************************************)
(* Prompts.                                                                *)
(***************************************************************************)
\* the commands that ask the user before they request anything
Prompting ==
    {"hg.clean", "hg.cleanAll", "hg.branch", "hg.update", "hg.pushTo", "hg.clone"}
        \cup SmartCommits

\* a confirmation comes before the request of the engine's clean
ConfirmedBefore ==
    \E i, j \in 1..Len(events) :
        /\ i < j
        /\ events[i].type = "showWarningMessage"
        /\ events[j] = Event("engine", "clean", "resources")

\* C19: when the user dismisses a prompt, selects nothing or submits an
\* empty input (clean, cleanAll, branch, update, pushTo, clone, the commit
\* message), the command ends without any request to the engine and without
\* an error dialog; the engine's clean is requested only after the user
\* picked 'Discard Changes' in the same invocation.
C19_DismissalIsSilent ==
    /\ (cmd \in Prompting /\ locals.answer \in {"dismissed", "empty"}) =>
          /\ OfType("engine") = <<>>
          /\ ~detached
          /\ OfType("showErrorMessage") = <<>>
          /\ err = NoErr
          /\ pc = "done"
          /\ promise = "resolved"
    /\ EngineCalls("clean") # <<>> =>
          /\ locals.answer = "Discard Changes"
          /\ ConfirmedBefore

C19_Witness ==
    /\ cmd = "hg.cleanAll"
    /\ groups.working # {}
    /\ locals.answer = "dismissed"
    /\ OfType("showWarningMessage") # <<>>
    /\ OfType("engine") = <<>>
    /\ promise = "resolved"

(***************************************************************************)
(* Smart commit under interleaved dispatches.                              *)
(***************************************************************************)
\* C20: whatever other command completed while the prompt for the commit
\* message was open, the engine's commit is requested only in a state where
\* the 'no changes' test is false and the scope resolved before the prompt
\* is the one the options resolve to now.
C20_CheckStillValid ==
    (cmd \in SmartCommits /\ pc = "engine" /\ op = "commit") =>
        /\ ~NoChanges(request.all)
        /\ cmd \in {"hg.commit", "hg.commitWithInput"} => locals.scope = Scope("")

====
